---- MODULE Spec2Model ----
(***************************************************************************)
(* kalman_filter (src/kalman_filter.py, lines 47-144) as a state machine.  *)
(*                                                                         *)
(* Numbers.  Angles are integers in units of pi/10, so that 2*pi = 20 and  *)
(* the threshold 1.8*pi = 18 are exact.  A scalar of a channel is a record *)
(* [nan, val]: NaN is [nan |-> TRUE, val |-> 0].  A rotation is given by   *)
(* the triple that Rotation.as_euler('XYZ') returns for it.                *)
(*                                                                         *)
(* Matrices.  The 18-dimensional arithmetic of lines 99-141 is modelled by *)
(* what decides the claims: the numpy shape of every operand and result    *)
(* (with numpy's matmul and broadcasting rules), whether the result holds  *)
(* a NaN, and which statement stored it in which cell.                     *)
(*                                                                         *)
(* Lists.  x and P are built by list repetition (lines 94-95), so a table  *)
(* is a sequence of references to row objects.                             *)
(*                                                                         *)
(* Spec is the whole call, for every track Init draws.  UnwrapSpec is the  *)
(* unwrapping loop alone on one angle dimension, over longer channels.     *)
(***************************************************************************)
EXTENDS Integers, Sequences, FiniteSets, TLC

----------------------------------------------------------------------------
(* Bounds of the model *)

\* longest track with present frames that Init draws
MaxLen == 5
\* longest all-missing track that Init draws
MaxGap == 10
\* frames fed to the unwrapping loop in UnwrapSpec
MaxSamples == 21

(* Program constants *)

\* 1.8 * np.pi, in units of pi/10
Threshold == 18
\* 2 * np.pi, in units of pi/10
TwoPi == 20
\* reshape((-1, 3)): scalars per channel row
RowWidth == 3
\* the 3 x 3 blocks of F and Q: value, velocity, acceleration
BlockDim == 3
\* np.pi, in units of pi/10: as_euler returns angles in [-pi, pi]
HalfTurn == 10
\* np.eye(6): scalar channels x y z ex ey ez
NChannels == 6
\* np.zeros(18): dimension of the state
StateDim == 18
\* np.eye(9) of the covariance update
EyeDim == 9

VARIABLES
    pc,         \* the statement kalman_filter executes next
    exc,        \* the exception that ended the call, [type, line]
    poses,      \* argument: the track, a sequence of poses or None
    cfg,        \* arguments dt, P0, sq_sigma_a, r
    positions,  \* local: the position channel
    angles,     \* local: the euler-angle channel
    n,          \* local: len(positions) after trimming
    x, P,       \* local: the state and covariance tables
    K, z,       \* local: gains and measurements, one per frame
    F, Q, H, R, \* local: the model matrices
    i,          \* local: the loop variable of line 133
    est_z,      \* local: the estimated states of line 144
    s1, s2,     \* UnwrapSpec: not_nan_angles[i-1][j] in a first and a second pass
    samples     \* UnwrapSpec: frames fed so far

vars == <<pc, exc, poses, cfg, positions, angles, n, x, P, K, z, F, Q, H, R, i,
          est_z, s1, s2, samples>>

----------------------------------------------------------------------------
(* Scalars and channel rows *)

\* a sequence given by a function, as an explicit tuple
Tuple(f) == SubSeq(f, 1, Len(f))

NaN == [nan |-> TRUE, val |-> 0]
Num(v) == [nan |-> FALSE, val |-> v]
NaNRow == Tuple([c \in 1..RowWidth |-> NaN])
NumRow(t) == Tuple([c \in 1..Len(t) |-> Num(t[c])])

(* Inputs *)

None == [present |-> FALSE, t |-> <<>>, e |-> <<>>]
Pose(t, e) == [present |-> TRUE, t |-> t, e |-> e]

\* three poses, told apart by their translation pose[:3, -1]; the euler triple
\* of the rotation pose[:3, :3] has its first angle at +pi, at -pi or at
\* -0.7 pi, and its third angle at the mirror image
PoseSet == {Pose(<<1, 0, 0>>, <<HalfTurn, 0, -HalfTurn>>),
            Pose(<<2, 0, 0>>, <<-HalfTurn, 0, HalfTurn>>),
            Pose(<<3, 0, 0>>, <<-7, 0, 7>>)}

RECURSIVE SeqsUpTo(_, _)
SeqsUpTo(S, len) ==
    IF len = 0 THEN {<<>>}
    ELSE LET shorter == SeqsUpTo(S, len - 1)
         IN  shorter \cup {Append(q, e) : q \in {r \in shorter : Len(r) = len - 1}, e \in S}

Tracks == SeqsUpTo(PoseSet \cup {None}, MaxLen)
            \cup {Tuple([k \in 1..len |-> None]) : len \in 0..MaxGap}

DefaultCfg == [dt |-> 1, P0 |-> 500, sq_sigma_a |-> 100, r |-> 1]
Invalid(c) == c.dt <= 0 \/ c.P0 < 0 \/ c.sq_sigma_a < 0 \/ c.r < 0
\* the defaults, and the defaults with one parameter out of range
Configs == {DefaultCfg}
             \cup {[DefaultCfg EXCEPT !.dt = d] : d \in {-1, 0}}
             \cup {[DefaultCfg EXCEPT !.P0 = -1], [DefaultCfg EXCEPT !.sq_sigma_a = -1],
                   [DefaultCfg EXCEPT !.r = -1]}

----------------------------------------------------------------------------
(* Lines 59-71: poses to positions and euler angles *)

ExtractPositions(ps) ==
    Tuple([f \in 1..Len(ps) |-> IF ps[f].present THEN NumRow(ps[f].t) ELSE NaNRow])

ExtractAngles(ps) ==
    Tuple([f \in 1..Len(ps) |-> IF ps[f].present THEN NumRow(ps[f].e) ELSE NaNRow])

----------------------------------------------------------------------------
(* Lines 73-81: add +-2pi if diff from last point more than 1.8pi *)

RECURSIVE Flatten(_)
Flatten(rows) == IF rows = <<>> THEN <<>> ELSE Head(rows) \o Flatten(Tail(rows))

IsNum(s) == ~s.nan

\* angles[~np.isnan(angles)].reshape((-1, 3)), as plain integers
NotNanRows(a) ==
    LET kept == SelectSeq(Flatten(a), IsNum)
    IN  Tuple([r \in 1..(Len(kept) \div RowWidth) |->
                 Tuple([c \in 1..RowWidth |-> kept[RowWidth * (r - 1) + c].val])])

\* lines 77-80, one dimension j of one row: prev is not_nan_angles[i - 1][j]
UnwrapStep(prev, cur) ==
    IF cur - prev > Threshold THEN cur - TwoPi
    ELSE IF cur - prev < -Threshold THEN cur + TwoPi
    ELSE cur

\* s with its entry at index r replaced by e
Replace(s, r, e) == SubSeq(s, 1, r - 1) \o <<e>> \o SubSeq(s, r + 1, Len(s))

\* lines 75-80 from row index r (1-based) on; every row is rewritten in place,
\* so row r is compared with the rewritten row r - 1
RECURSIVE UnwrapRows(_, _)
UnwrapRows(rows, r) ==
    IF r > Len(rows) THEN rows
    ELSE UnwrapRows(Replace(rows, r,
                        Tuple([j \in 1..Len(rows[r]) |->
                                 UnwrapStep(rows[r - 1][j], rows[r][j])])),
                    r + 1)

\* line 81: angles[~np.isnan(angles)] = vals; the unmasked place at index p
\* takes the value whose number is the count of unmasked places up to p
Scatter(flat, vals) ==
    Tuple([p \in 1..Len(flat) |->
             IF flat[p].nan THEN NaN
             ELSE Num(vals[Cardinality({q \in 1..p : ~flat[q].nan})])])

\* variant: a pass over the frames that compares a frame with the frame before
\* it, and so starts anew after every missing frame
UnwrapChannelByFrame(a) ==
    LET RECURSIVE Walk(_, _)
        Walk(rows, f) ==
            IF f > Len(rows) THEN rows
            ELSE Walk(Replace(rows, f,
                         Tuple([j \in 1..RowWidth |->
                            IF rows[f][j].nan \/ rows[f - 1][j].nan THEN rows[f][j]
                            ELSE Num(UnwrapStep(rows[f - 1][j].val, rows[f][j].val))])),
                      f + 1)
    IN  Walk(a, 2)

\* lines 74-81 on the whole channel
UnwrapChannel(a) ==
    LET filled == Scatter(Flatten(a), Flatten(UnwrapRows(NotNanRows(a), 2)))
    IN  Tuple([f \in 1..Len(a) |->
                 Tuple([c \in 1..RowWidth |-> filled[RowWidth * (f - 1) + c]])])

----------------------------------------------------------------------------
(* Lines 87-90: remove nan at the beginning and in the end *)

\* np.nonzero(~np.isnan(positions[:, 0])), 0-based frame indices
NotNanFrames(p) == {f - 1 : f \in {g \in 1..Len(p) : ~p[g][1].nan}}

\* variant: a reduction that answers 0 for a zero-size array instead of raising
ReduceDefault(S, lo) ==
    IF S = {} THEN [ok |-> TRUE, val |-> 0]
    ELSE [ok |-> TRUE,
          val |-> IF lo THEN CHOOSE m \in S : \A k \in S : m <= k
                  ELSE CHOOSE m \in S : \A k \in S : m >= k]

\* np.min and np.max raise ValueError on a zero-size array
Reduce(S, lo) ==
    IF S = {} THEN [ok |-> FALSE, val |-> 0]
    ELSE [ok |-> TRUE,
          val |-> IF lo THEN CHOOSE m \in S : \A k \in S : m <= k
                  ELSE CHOOSE m \in S : \A k \in S : m >= k]


NpMin(S) == Reduce(S, TRUE)
NpMax(S) == Reduce(S, FALSE)

\* variant: s[lo:hi], a slice without the + 1 of its end
SliceExclusive(s, lo, hi) == SubSeq(s, lo + 1, hi)

\* s[lo:hi + 1] for 0-based lo and hi; out-of-range ends are clipped
Slice(s, lo, hi) ==
    LET a == IF lo + 1 < 1 THEN 1 ELSE lo + 1
        b == IF hi + 1 > Len(s) THEN Len(s) ELSE hi + 1
    IN  SubSeq(s, a, b)

----------------------------------------------------------------------------
(* numpy values: shape, and whether a NaN is among the entries.  An         *)
(* operation on operands whose shapes do not conform gives Bad.              *)

Val(sh, nan) == [ok |-> TRUE, sh |-> sh, nan |-> nan]
Bad == [ok |-> FALSE, sh |-> <<>>, nan |-> FALSE]

Eye(k) == Val(<<k, k>>, FALSE)
Zeros(sh) == Val(sh, FALSE)

\* np.kron of two matrices
Kron(a, b) == Val(<<a.sh[1] * b.sh[1], a.sh[2] * b.sh[2]>>, a.nan \/ b.nan)

\* a.T
Tr(a) ==
    IF a.ok THEN Val(Tuple([k \in 1..Len(a.sh) |-> a.sh[Len(a.sh) + 1 - k]]), a.nan)
    ELSE Bad

\* a @ b for a matrix a and a matrix or vector b
MatMul(a, b) ==
    IF ~a.ok \/ ~b.ok \/ Len(a.sh) # 2 \/ Len(b.sh) \notin {1, 2} THEN Bad
    ELSE IF a.sh[2] # b.sh[1] THEN Bad
    ELSE Val(<<a.sh[1]>> \o Tail(b.sh), a.nan \/ b.nan)

\* numpy broadcasting of two shapes of the same rank
Broadcast(s, t) ==
    IF Len(s) = Len(t) /\ \A k \in 1..Len(s) : s[k] = t[k] \/ s[k] = 1 \/ t[k] = 1
    THEN [ok |-> TRUE, sh |-> Tuple([k \in 1..Len(s) |-> IF s[k] = 1 THEN t[k] ELSE s[k]])]
    ELSE [ok |-> FALSE, sh |-> <<>>]

\* a + b and a - b, elementwise
Elementwise(a, b) ==
    IF ~a.ok \/ ~b.ok THEN Bad
    ELSE LET bc == Broadcast(a.sh, b.sh)
         IN  IF bc.ok THEN Val(bc.sh, a.nan \/ b.nan) ELSE Bad

\* np.linalg.pinv of a matrix
Pinv(a) == IF a.ok /\ Len(a.sh) = 2 THEN Val(<<a.sh[2], a.sh[1]>>, a.nan) ELSE Bad

\* np.r_[p, q] of two channel rows
Concat(p, q) ==
    Val(<<Len(p) + Len(q)>>,
        (\E c \in 1..Len(p) : p[c].nan) \/ (\E d \in 1..Len(q) : q[d].nan))

----------------------------------------------------------------------------
(* Lines 92-97: the tables.  A cell is None or a stored value, tagged with  *)
(* the statement that stored it: "init" (lines 123, 126), "predict" (lines  *)
(* 129-130, 140-141), "update" (lines 137-138), "gain" (136), "meas" (134). *)

NoneCell == [set |-> FALSE, sh |-> <<>>, nan |-> FALSE, by |-> "none", k |-> 0]
Cell(v, by, k) == [set |-> TRUE, sh |-> v.sh, nan |-> v.nan, by |-> by, k |-> k]
Load(c) == IF c.set THEN Val(c.sh, c.nan) ELSE Bad

\* [None] * len
NoneList(len) == Tuple([k \in 1..len |-> NoneCell])

\* [[None] * cols] * rows: one inner list, referenced rows times
Table(rows, cols) == [ref |-> Tuple([k \in 1..rows |-> 1]), row |-> <<NoneList(cols)>>]

\* t[a][b] and t[a][b] = c, 0-based
Get(t, a, b) == t.row[t.ref[a + 1]][b + 1]
Put(t, a, b, c) ==
    [ref |-> t.ref,
     row |-> Replace(t.row, t.ref[a + 1], Replace(t.row[t.ref[a + 1]], b + 1, c))]

NoVal == Val(<<>>, FALSE)
NoExc == [type |-> "", line |-> 0]
Raise(type, line) == [type |-> type, line |-> line]

----------------------------------------------------------------------------
(* kalman_filter, statement by statement *)

Init ==
    /\ pc = "extract"
    /\ exc = NoExc
    /\ poses \in Tracks
    /\ cfg \in Configs
    /\ positions = <<>>
    /\ angles = <<>>
    /\ n = 0
    /\ x = Table(0, 0)
    /\ P = Table(0, 0)
    /\ K = <<>>
    /\ z = <<>>
    /\ F = NoVal /\ Q = NoVal /\ H = NoVal /\ R = NoVal
    /\ i = 0
    /\ est_z = <<>>
    /\ s1 = 0 /\ s2 = 0 /\ samples = 0

\* lines 59-71
Extract ==
    /\ pc = "extract"
    /\ positions' = ExtractPositions(poses)
    /\ angles' = ExtractAngles(poses)
    /\ pc' = "unwrap"
    /\ UNCHANGED <<exc, poses, cfg, n, x, P, K, z, F, Q, H, R, i, est_z, s1, s2, samples>>

\* lines 73-81
Unwrap ==
    /\ pc = "unwrap"
    /\ angles' = UnwrapChannel(angles)
    /\ pc' = "trim"
    /\ UNCHANGED <<exc, poses, cfg, positions, n, x, P, K, z, F, Q, H, R, i, est_z,
                   s1, s2, samples>>

\* lines 87-90.  np.array of an empty list is one-dimensional, and
\* positions[:, 0] then raises IndexError; np.min of no frame raises ValueError
Trim ==
    /\ pc = "trim"
    /\ LET frames == NotNanFrames(positions)
           lo == NpMin(frames)
           hi == NpMax(frames)
       IN  IF Len(positions) = 0
           THEN /\ pc' = "raised" /\ exc' = Raise("IndexError", 88)
                /\ UNCHANGED <<positions, angles>>
           ELSE IF ~lo.ok \/ ~hi.ok
           THEN /\ pc' = "raised" /\ exc' = Raise("ValueError", 89)
                /\ UNCHANGED <<positions, angles>>
           ELSE /\ positions' = Slice(positions, lo.val, hi.val)
                /\ angles' = Slice(angles, lo.val, hi.val)
                /\ pc' = "create"
                /\ exc' = exc
    /\ UNCHANGED <<poses, cfg, n, x, P, K, z, F, Q, H, R, i, est_z, s1, s2, samples>>

\* lines 92-97
CreateVariables ==
    /\ pc = "create"
    /\ n' = Len(positions)
    /\ x' = Table(Len(positions) + 1, Len(positions))
    /\ P' = Table(Len(positions) + 1, Len(positions))
    /\ K' = NoneList(Len(positions))
    /\ z' = NoneList(Len(positions))
    /\ pc' = "matrices"
    /\ UNCHANGED <<exc, poses, cfg, positions, angles, F, Q, H, R, i, est_z, s1, s2, samples>>

\* lines 99-117
BuildMatrices ==
    /\ pc = "matrices"
    /\ F' = Kron(Eye(NChannels), Zeros(<<BlockDim, BlockDim>>))
    /\ Q' = Kron(Eye(NChannels), Zeros(<<BlockDim, BlockDim>>))
    /\ H' = Zeros(<<NChannels, StateDim>>)
    /\ R' = Zeros(<<NChannels, NChannels>>)
    /\ pc' = "init"
    /\ UNCHANGED <<exc, poses, cfg, positions, angles, n, x, P, K, z, i, est_z, s1, s2, samples>>

\* F @ v
PredictState(v) == MatMul(F, v)
\* F @ c @ F.T + Q
PredictCov(c) == Elementwise(MatMul(MatMul(F, c), Tr(F)), Q)

\* lines 119-126: x0 takes positions[0] and angles[0] in its value slots
InitTables ==
    /\ pc = "init"
    /\ x' = Put(x, 0, 0, Cell(Val(<<StateDim>>, Concat(positions[1], angles[1]).nan), "init", 0))
    /\ P' = Put(P, 0, 0, Cell(Kron(Eye(NChannels), Zeros(<<BlockDim, BlockDim>>)), "init", 0))
    /\ pc' = "first"
    /\ UNCHANGED <<exc, poses, cfg, positions, angles, n, K, z, F, Q, H, R, i, est_z,
                   s1, s2, samples>>

\* lines 128-130
FirstStep ==
    /\ pc = "first"
    /\ x' = Put(x, 1, 0, Cell(PredictState(Load(Get(x, 0, 0))), "predict", 0))
    /\ P' = Put(P, 1, 0, Cell(PredictCov(Load(Get(P, 0, 0))), "predict", 0))
    /\ i' = 1
    /\ pc' = "loop"
    /\ UNCHANGED <<exc, poses, cfg, positions, angles, n, K, z, F, Q, H, R, est_z,
                   s1, s2, samples>>

\* lines 133-141, one iteration.  Python evaluates a right-hand side before it
\* stores, so a statement that raises leaves the earlier stores in place.
LoopBody ==
    /\ pc = "loop"
    /\ i < n
    /\ LET zi == Concat(positions[i + 1], angles[i + 1])
           xp == Load(Get(x, i, i - 1))
           Pp == Load(Get(P, i, i - 1))
           Ki == MatMul(MatMul(Pp, Tr(H)),
                        Pinv(Elementwise(MatMul(MatMul(H, Pp), Tr(H)), R)))
           xi == Elementwise(xp, MatMul(Ki, Elementwise(zi, MatMul(H, xp))))
           IKH == Elementwise(Eye(EyeDim), MatMul(Ki, H))
           Pi == Elementwise(MatMul(MatMul(IKH, Pp), Tr(IKH)),
                             MatMul(MatMul(Ki, R), Tr(Ki)))
           K1 == Replace(K, i + 1, Cell(Ki, "gain", i))
           x1 == Put(x, i, i, Cell(xi, "update", i))
           P1 == Put(P, i, i, Cell(Pi, "update", i))
       IN  /\ z' = Replace(z, i + 1, Cell(zi, "meas", i))
           /\ IF ~Ki.ok
              THEN /\ pc' = "raised" /\ exc' = Raise("ValueError", 136)
                   /\ UNCHANGED <<K, x, P, i>>
              ELSE IF ~xi.ok
              THEN /\ pc' = "raised" /\ exc' = Raise("ValueError", 137)
                   /\ K' = K1
                   /\ UNCHANGED <<x, P, i>>
              ELSE IF ~Pi.ok
              THEN /\ pc' = "raised" /\ exc' = Raise("ValueError", 138)
                   /\ K' = K1 /\ x' = x1
                   /\ UNCHANGED <<P, i>>
              ELSE /\ K' = K1
                   /\ x' = Put(x1, i + 1, i, Cell(PredictState(Load(Get(x1, i, i))), "predict", i))
                   /\ P' = Put(P1, i + 1, i, Cell(PredictCov(Load(Get(P1, i, i))), "predict", i))
                   /\ i' = i + 1
                   /\ UNCHANGED <<pc, exc>>
    /\ UNCHANGED <<poses, cfg, positions, angles, n, F, Q, H, R, est_z, s1, s2, samples>>

\* line 144, after the loop: np.zeros() without a shape raises TypeError
Result ==
    /\ pc = "loop"
    /\ i >= n
    /\ pc' = "raised"
    /\ exc' = Raise("TypeError", 144)
    /\ UNCHANGED <<poses, cfg, positions, angles, n, x, P, K, z, F, Q, H, R, i, est_z,
                   s1, s2, samples>>

Next ==
    \/ Extract
    \/ Unwrap
    \/ Trim
    \/ CreateVariables
    \/ BuildMatrices
    \/ InitTables
    \/ FirstStep
    \/ LoopBody
    \/ Result

Spec == Init /\ [][Next]_vars

----------------------------------------------------------------------------
(* The unwrapping loop of lines 75-80 on one angle dimension j, fed one     *)
(* frame at a time and run twice: s1 is not_nan_angles[i - 1][j] of a pass  *)
(* over the raw channel, s2 that of a pass over the first pass's output.    *)

AngleUnits == (-HalfTurn)..HalfTurn

UnwrapInit ==
    /\ pc = "feed0"
    /\ exc = NoExc
    /\ poses = <<>>
    /\ cfg = DefaultCfg
    /\ positions = <<>>
    /\ angles = <<>>
    /\ n = 0
    /\ x = Table(0, 0)
    /\ P = Table(0, 0)
    /\ K = <<>>
    /\ z = <<>>
    /\ F = NoVal /\ Q = NoVal /\ H = NoVal /\ R = NoVal
    /\ i = 0
    /\ est_z = <<>>
    /\ s1 = 0 /\ s2 = 0 /\ samples = 0

\* a frame that is None: masked out by line 74
FeedMissing ==
    /\ pc \in {"feed0", "feed"}
    /\ samples < MaxSamples
    /\ samples' = samples + 1
    /\ UNCHANGED <<pc, exc, poses, cfg, positions, angles, n, x, P, K, z, F, Q, H, R, i,
                   est_z, s1, s2>>

\* the first present frame: row 0, which range(1, len) never visits
FeedFirst ==
    /\ pc = "feed0"
    /\ samples < MaxSamples
    /\ \E a \in AngleUnits : s1' = a /\ s2' = a
    /\ samples' = samples + 1
    /\ pc' = "feed"
    /\ UNCHANGED <<exc, poses, cfg, positions, angles, n, x, P, K, z, F, Q, H, R, i, est_z>>

\* a later present frame: lines 77-80 in the first pass, then in the second
FeedNext ==
    /\ pc = "feed"
    /\ samples < MaxSamples
    /\ \E a \in AngleUnits :
          /\ s1' = UnwrapStep(s1, a)
          /\ s2' = UnwrapStep(s2, UnwrapStep(s1, a))
    /\ samples' = samples + 1
    /\ UNCHANGED <<pc, exc, poses, cfg, positions, angles, n, x, P, K, z, F, Q, H, R, i,
                   est_z>>

UnwrapNext ==
    \/ FeedMissing
    \/ FeedFirst
    \/ FeedNext

UnwrapSpec == UnwrapInit /\ [][UnwrapNext]_vars

----------------------------------------------------------------------------
(* Properties *)

Present(ps) == {f \in 1..Len(ps) : ps[f].present}
HasPresent(ps) == Present(ps) # {}
AllMissing(ps) == Present(ps) = {}
Dense(ps) == SelectSeq(ps, LAMBDA q : q.present)
MinOf(S) == CHOOSE m \in S : \A k \in S : m <= k
MaxOf(S) == CHOOSE m \in S : \A k \in S : m >= k

\* C1: no state accepted at a frame, x[k][k], holds a NaN, whatever interior
\* frames of the trimmed span are missing.
C1_NoNaNAccepted ==
    \A k \in 0..(n - 1) : Get(x, k, k).set => ~Get(x, k, k).nan

\* C2: for a track with a present frame the call ends by returning, never by
\* raising, and returns one present entry per frame of the trimmed span.
C2_ReturnsFullTrack ==
    (HasPresent(poses) /\ pc \in {"raised", "returned"})
        => (pc = "returned" /\ Len(est_z) = n)

\* cumulative-offset unwrapping of one dimension: a jump of more than 1.8 pi
\* between consecutive raw samples moves every later sample by 2 pi
RECURSIVE Offset(_, _, _)
Offset(rows, r, j) ==
    IF r = 1 THEN 0
    ELSE Offset(rows, r - 1, j)
            + (IF rows[r][j] - rows[r - 1][j] > Threshold THEN -TwoPi
               ELSE IF rows[r][j] - rows[r - 1][j] < -Threshold THEN TwoPi
               ELSE 0)

Cumulative(rows) ==
    Tuple([r \in 1..Len(rows) |->
             Tuple([j \in 1..Len(rows[r]) |-> rows[r][j] + Offset(rows, r, j)])])

\* C3: after the unwrapping pass the present samples of every angle dimension
\* equal the cumulative-offset unwrapping of the raw present samples.
C3_CumulativeUnwrap ==
    pc = "trim" => NotNanRows(angles) = Cumulative(NotNanRows(ExtractAngles(poses)))

\* C4: a second unwrapping pass over the output of the first changes no value.
C4_Idempotent ==
    pc = "feed" => s2 = s1

\* C5: the unwrapped present samples are those of the track with its missing
\* frames removed, and exactly the missing frames stay NaN, at their indices.
C5_GapIndependent ==
    pc = "trim" =>
        /\ Len(angles) = Len(poses)
        /\ \A f \in 1..Len(poses) :
              /\ (~poses[f].present) => angles[f] = NaNRow
              /\ poses[f].present => \A c \in 1..RowWidth : ~angles[f][c].nan
        /\ NotNanRows(angles) = NotNanRows(UnwrapChannel(ExtractAngles(Dense(poses))))

\* a sample right after an interior gap was moved by 2 pi
C5_Witness ==
    /\ pc = "trim"
    /\ \E f \in 2..(Len(poses) - 1) :
          /\ ~poses[f].present /\ poses[f - 1].present /\ poses[f + 1].present
          /\ angles[f + 1] # ExtractAngles(poses)[f + 1]

\* C6: for a track with a present frame both channels are cut to the frames
\* from the first to the last present one, ends included, entries unchanged and
\* in order, so no present frame is dropped; the trim step does not raise.
C6_TrimExact ==
    /\ (HasPresent(poses) /\ pc = "raised") => exc.line \notin {88, 89}
    /\ pc = "create" =>
          LET lo == MinOf(Present(poses))
              hi == MaxOf(Present(poses))
              ep == ExtractPositions(poses)
              ua == UnwrapChannel(ExtractAngles(poses))
          IN  /\ Len(positions) = hi - lo + 1
              /\ Len(angles) = hi - lo + 1
              /\ \A k \in 1..(hi - lo + 1) :
                    positions[k] = ep[lo + k - 1] /\ angles[k] = ua[lo + k - 1]
              /\ ~positions[1][1].nan /\ ~positions[Len(positions)][1].nan
              /\ Cardinality(NotNanFrames(positions)) = Cardinality(Present(poses))

\* leading and trailing missing frames were cut off, an interior one was kept
C6_Witness ==
    /\ pc = "create"
    /\ ~poses[1].present /\ ~poses[Len(poses)].present
    /\ Len(positions) = Len(poses) - 2
    /\ \E k \in 2..(Len(positions) - 1) : positions[k][1].nan

C8_InvalidConfigRejected ==
    Invalid(cfg) =>
        \/ pc = "extract"
        \/ pc = "raised" /\ exc.type = "InvalidConfigurationError" /\ positions = <<>>

\* C9: a prediction write leaves the stored estimates alone: x[0][0] and
\* P[0][0] keep what the initialization stored, x[k][k] and P[k][k] what the
\* update at frame k stored.
C9_EstimatesKept ==
    \A k \in 0..(n - 1) :
        /\ Get(x, k, k).set => Get(x, k, k).by = (IF k = 0 THEN "init" ELSE "update")
        /\ Get(P, k, k).set => Get(P, k, k).by = (IF k = 0 THEN "init" ELSE "update")

\* C10: F, Q and P are 18 x 18, H is 6 x 18, R is 6 x 6, and for a span of two
\* or more frames no statement of the loop raises for a shape.
C10_ShapesConform ==
    /\ pc \in {"init", "first", "loop"} =>
          /\ F.sh = <<StateDim, StateDim>> /\ Q.sh = <<StateDim, StateDim>>
          /\ H.sh = <<NChannels, StateDim>> /\ R.sh = <<NChannels, NChannels>>
    /\ (n >= 2 /\ pc = "raised") => exc.line \notin 133..141

====
